---- MODULE Spec2Model ----
(***************************************************************************)
(* Banking dashboard API server (src/server/src/index.ts) with its request *)
(* validation middleware (src/unnamed/part_001).                           *)
(*                                                                         *)
(* The store is the in-memory SQLite database: the accounts table (two     *)
(* seeded rows) and the transactions table.  Every db.get / db.all /       *)
(* db.run call is one step: the statement executes and its callback runs.  *)
(* Steps of different requests interleave freely.                          *)
(***************************************************************************)
EXTENDS Integers, Sequences, FiniteSets, TLC

(***************************************************************************)
(* Bounds of the model.                                                    *)
(***************************************************************************)
\* Number of requests the server receives in one behaviour.
MaxRequests == 2
\* Number of list-transactions requests the server receives in one behaviour.
MaxQueries == 1
\* Largest reading of the store's clock, in seconds after startup.
MaxClock == 1
\* Number of getTransactions fetches the client starts in one behaviour.
MaxFetches == 2

(***************************************************************************)
(* JavaScript / JSON values of the amount field and of balances.           *)
(* tag "number" carries val; "NaN" is the number NaN; "null" is JSON/SQL   *)
(* null; "string" is a non-numeric string such as "abc"; "undefined" is    *)
(* an absent body field.                                                   *)
(***************************************************************************)
JNum(n) == [tag |-> "number", val |-> n]
NaN == [tag |-> "NaN", val |-> 0]
JNull == [tag |-> "null", val |-> 0]
JStr == [tag |-> "string", val |-> 0]
JUndef == [tag |-> "undefined", val |-> 0]

\* type and description are strings; these two stand for null and for an
\* absent field.
NullStr == "<null>"
UndefStr == "<undefined>"

\* Number(x)
Number(x) ==
  CASE x.tag = "number" -> x
    [] x.tag = "null" -> JNum(0)
    [] OTHER -> NaN

\* a + b and a - b on numbers (NaN is absorbing)
JAdd(a, b) == IF a.tag = "number" /\ b.tag = "number" THEN JNum(a.val + b.val) ELSE NaN
JSub(a, b) == IF a.tag = "number" /\ b.tag = "number" THEN JNum(a.val - b.val) ELSE NaN

\* a < 0 on a number: false for NaN
JLessZero(a) == a.tag = "number" /\ a.val < 0

\* x <= 0 with x converted by ToNumber: null is 0, undefined and "abc" are NaN
JLeqZero(x) == LET n == Number(x) IN n.tag = "number" /\ n.val <= 0

\* !x
FalsyAmount(x) == x.tag \in {"null", "undefined", "NaN"} \/ (x.tag = "number" /\ x.val = 0)
FalsyStr(s) == s \in {"", NullStr, UndefStr}

\* A value bound to a statement parameter and stored in a REAL column:
\* undefined binds nothing (NULL), NaN is stored as NULL.
SqlValue(x) == IF x.tag \in {"undefined", "NaN", "null"} THEN JNull ELSE x
SqlText(s) == IF s = UndefStr THEN NullStr ELSE s

\* JSON.stringify of a number: NaN is written as null.
ToJson(x) == IF x.tag = "NaN" THEN JNull ELSE x

(***************************************************************************)
(* The store.                                                              *)
(***************************************************************************)
sampleAccounts ==
  [a \in {"1", "2"} |->
     IF a = "1"
     THEN [id |-> "1", accountNumber |-> "1001", accountType |-> "CHECKING",
           balance |-> JNum(5000), accountHolder |-> "John Doe", createdAt |-> "t0"]
     ELSE [id |-> "2", accountNumber |-> "1002", accountType |-> "SAVINGS",
           balance |-> JNum(10000), accountHolder |-> "Jane Smith", createdAt |-> "t0"]]

\* Account ids a request may name; "3" is not in the table.
RequestIds == {"1", "2", "3"}

TransactionTypes == {"DEPOSIT", "WITHDRAWAL", "TRANSFER"}

\* CHECK(type IN ("DEPOSIT", "WITHDRAWAL", "TRANSFER")): a CHECK constraint
\* fails only when its expression is false; for a NULL type it is NULL.
TypeCheckPasses(t) == t \in TransactionTypes \/ t = NullStr

\* Request bodies of POST /api/accounts/:id/transactions.
Body(t, a, d) == [type |-> t, amount |-> a, description |-> d]
Bodies ==
  { Body("DEPOSIT", JNum(500), "payroll"),
    Body("WITHDRAWAL", JNum(6000), "rent"),
    Body("TRANSFER", JNum(500), "rent"),
    Body("DEPOSIT", JNum(-6000), "payroll"),
    Body("BOGUS", JNum(500), "payroll"),
    Body(NullStr, JNum(500), "payroll"),
    Body(NullStr, JNum(0), ""),
    Body("DEPOSIT", JStr, "payroll"),
    Body(UndefStr, JUndef, UndefStr) }

\* Query strings of GET /api/accounts/:id/transactions: a parameter is an
\* integer or absent.
Query(p, l) == [page |-> p, limit |-> l]
Queries ==
  { Query(JUndef, JUndef), Query(JNum(1), JNum(2)), Query(JNum(2), JNum(1)),
    Query(JNum(2), JNum(10)), Query(JNum(0), JNum(10)), Query(JNum(-1), JNum(10)),
    Query(JNum(101), JNum(10)), Query(JNum(1), JNum(500)), Query(JNum(1), JNum(0)) }

VARIABLES
  accounts,      \* accounts table: id -> row
  transactions,  \* transactions table in id order: row i has id i
  creq,          \* create-transaction requests in flight: slot -> record
  received,      \* number of requests received so far
  lreq,          \* the list-transactions request in flight
  queried,       \* number of list-transactions requests received so far
  now,           \* the store's clock (CURRENT_TIMESTAMP), in seconds
  resp,          \* the response the last step sent, if any
  client         \* the AccountList component: its state and its fetches in flight

vars == <<accounts, transactions, creq, received, lreq, queried, now, resp, client>>

Slots == {1, 2}

\* A response: the endpoint, the request it answers (account id and request
\* body or query), the status and the JSON body.  op "uncaught" is no
\* response: a res.json call that threw because one was already sent.
NoResp == [op |-> "none", status |-> 0, id |-> "", request |-> <<>>, body |-> <<>>]
Response(op, status, id, request, body) ==
  [op |-> op, status |-> status, id |-> id, request |-> request, body |-> body]

\* { type: "Error", message } and { type: "Success", message, data }
ErrorBody(message) == [type |-> "Error", message |-> message]
SuccessBody(message, data) == [type |-> "Success", message |-> message, data |-> data]

IdleReq ==
  [pc |-> "idle", id |-> "", body |-> Body("", JNull, ""), sent |-> FALSE,
   balance |-> JNull, newBalance |-> JNull]

IdleQuery ==
  [pc |-> "idle", id |-> "", query |-> Query(JUndef, JUndef), page |-> 0, limit |-> 0,
   offset |-> 0, totalTransactions |-> 0]

\* the component's state after its first render: the useState defaults, no
\* getTransactions fetch in flight.  fetchedFor is the account whose answer
\* the transactions list was last set from ("" when it was not).
ClientInit ==
  [loading |-> TRUE, error |-> FALSE, accounts |-> {},
   openCreateTransactionModal |-> FALSE, openViewTransactionModal |-> FALSE,
   accountId |-> "", transactionsLoading |-> FALSE, transactionsError |-> FALSE,
   transactions |-> <<>>, fetchedFor |-> "", fetches |-> <<>>, started |-> 0]

Init ==
  /\ accounts = sampleAccounts
  /\ transactions = <<>>
  /\ creq = [s \in Slots |-> IdleReq]
  /\ received = 0
  /\ lreq = IdleQuery
  /\ queried = 0
  /\ now = 0
  /\ resp = NoResp
  /\ client = ClientInit

(***************************************************************************)
(* validateCreateTransaction: the condition under which it answers 400.    *)
(* It calls next() in either case.                                         *)
(***************************************************************************)
validateCreateTransaction(b) ==
  FalsyStr(b.type) /\ FalsyAmount(b.amount) /\ JLeqZero(b.amount) /\ FalsyStr(b.description)

\* res.status(status).json(body) for request r: the first call sends the
\* response; a later call throws (headers already sent) and sends nothing.
\* The throw happens inside a database callback, outside the handler's
\* try/catch; the steps below let the server go on serving after it.
Send(r, status, body) ==
  Response(IF r.sent THEN "uncaught" ELSE "create", status, r.id, r.body, body)

\* newBalance with the DEPOSIT branch lost: every type subtracts.
newBalanceAlwaysSubtracts(balance, b) == JSub(Number(balance), Number(b.amount))

\* let newBalance = Number(account.balance); DEPOSIT adds, anything else subtracts
newBalance(balance, b) ==
  IF b.type = "DEPOSIT"
  THEN JAdd(Number(balance), Number(b.amount))
  ELSE JSub(Number(balance), Number(b.amount))

\* the funds check with an overdraft of 1000 allowed
InsufficientFundsBelowOverdraft(nb) == nb.tag = "number" /\ nb.val < 0 - 1000

\* if (newBalance < 0)
InsufficientFunds(nb) == JLessZero(nb)

\* POST /api/accounts/:id/transactions: the middleware, then the handler up
\* to its db.get call.
CreateReceive(s, id, b) ==
  /\ creq[s].pc = "idle"
  /\ \A t \in Slots : t < s => creq[t].pc # "idle"
  /\ received < MaxRequests
  /\ received' = received + 1
  /\ LET rejected == validateCreateTransaction(b)
         r == [IdleReq EXCEPT !.pc = "get", !.id = id, !.body = b, !.sent = rejected]
     IN /\ creq' = [creq EXCEPT ![s] = r]
        /\ resp' = IF rejected
                   THEN Response("create", 400, id, b,
                                 [name |-> "Bad request", message |-> "Incomplete transaction details."])
                   ELSE NoResp
  /\ UNCHANGED <<accounts, transactions, lreq, queried, now, client>>

\* SELECT balance FROM accounts WHERE id = ?: the row, or no row
selectBalance(accts, id) ==
  IF id \in DOMAIN accts
  THEN [found |-> TRUE, balance |-> accts[id].balance]
  ELSE [found |-> FALSE, balance |-> JNull]

\* the not-found check left out
AccountMissingNeverChecked(account) == FALSE

\* if (!account)
AccountMissing(account) == ~account.found

\* db.get("SELECT balance FROM accounts WHERE id = ?") and its callback
CreateLookup(s) ==
  /\ creq[s].pc = "get"
  /\ LET r == creq[s]
         account == selectBalance(accounts, r.id)
         nb == newBalance(account.balance, r.body)
     IN
     \/ \* err
        /\ resp' = Send(r, 500, ErrorBody("Failed to fetch account details."))
        /\ creq' = [creq EXCEPT ![s] = IdleReq]
     \/ /\ AccountMissing(account)
        /\ resp' = Send(r, 404, ErrorBody("Account not found."))
        /\ creq' = [creq EXCEPT ![s] = IdleReq]
     \/ /\ ~AccountMissing(account)
        /\ InsufficientFunds(nb)
        /\ resp' = Send(r, 400, ErrorBody("Insufficient funds for this transaction."))
        /\ creq' = [creq EXCEPT ![s] = IdleReq]
     \/ /\ ~AccountMissing(account)
        /\ ~InsufficientFunds(nb)
        /\ resp' = NoResp
        /\ creq' = [creq EXCEPT ![s] = [r EXCEPT !.pc = "insert",
                                                 !.balance = account.balance,
                                                 !.newBalance = nb]]
  /\ UNCHANGED <<accounts, transactions, received, lreq, queried, now, client>>

\* every row given the id of the first
InsertRowFirstId(r, date) ==
  [id |-> 1, type |-> SqlText(r.body.type),
   amount |-> SqlValue(r.body.amount), description |-> SqlText(r.body.description),
   accountId |-> r.id, date |-> date]

\* INSERT INTO transactions (type, amount, description, accountId, date)
InsertRow(r, date) ==
  [id |-> Len(transactions) + 1, type |-> SqlText(r.body.type),
   amount |-> SqlValue(r.body.amount), description |-> SqlText(r.body.description),
   accountId |-> r.id, date |-> date]

\* db.run(transactionsInsertQuery) and its callback
CreateInsert(s) ==
  /\ creq[s].pc = "insert"
  /\ LET r == creq[s] IN
     \/ \* err: the statement failed (always when the CHECK on type fails)
        /\ resp' = Send(r, 500, ErrorBody("Failed to create transaction."))
        /\ creq' = [creq EXCEPT ![s] = IdleReq]
        /\ UNCHANGED transactions
     \/ /\ TypeCheckPasses(SqlText(r.body.type))
        /\ transactions' = Append(transactions, InsertRow(r, now))
        /\ resp' = NoResp
        /\ creq' = [creq EXCEPT ![s] = [r EXCEPT !.pc = "update"]]
  /\ UNCHANGED <<accounts, received, lreq, queried, now, client>>

\* the UPDATE without its WHERE clause
updateBalanceEveryAccount(accts, id, nb) ==
  [a \in DOMAIN accts |-> [accts[a] EXCEPT !.balance = SqlValue(nb)]]

\* UPDATE accounts SET balance = ? WHERE id = ?
updateBalanceQuery(accts, id, nb) ==
  IF id \in DOMAIN accts
  THEN [accts EXCEPT ![id] = [@ EXCEPT !.balance = SqlValue(nb)]]
  ELSE accts

\* db.run(updateBalanceQuery) and its callback
CreateUpdate(s) ==
  /\ creq[s].pc = "update"
  /\ LET r == creq[s] IN
     \/ \* updateErr
        /\ resp' = Send(r, 500, ErrorBody("Transaction created but failed to update balance."))
        /\ creq' = [creq EXCEPT ![s] = IdleReq]
        /\ UNCHANGED accounts
     \/ /\ accounts' = updateBalanceQuery(accounts, r.id, r.newBalance)
        /\ resp' = Send(r, 201,
                        SuccessBody("Transaction created and balance updated successfully.",
                                    [transactionType |-> r.body.type, amount |-> r.body.amount,
                                     newBalance |-> ToJson(r.newBalance)]))
        /\ creq' = [creq EXCEPT ![s] = IdleReq]
  /\ UNCHANGED <<transactions, received, lreq, queried, now, client>>

\* the account row as it was seeded, whatever the store holds now
GetAccountSeeded(id) ==
  /\ received < MaxRequests
  /\ received' = received + 1
  /\ \/ resp' = Response("getAccount", 500, id, <<>>, [error |-> "err"])
     \/ /\ id \notin DOMAIN accounts
        /\ resp' = Response("getAccount", 404, id, <<>>, [error |-> "Account not found"])
     \/ /\ id \in DOMAIN accounts
        /\ resp' = Response("getAccount", 200, id, <<>>, sampleAccounts[id])
  /\ UNCHANGED <<accounts, transactions, creq, lreq, queried, now, client>>

\* GET /api/accounts/:id
GetAccount(id) ==
  /\ received < MaxRequests
  /\ received' = received + 1
  /\ \/ resp' = Response("getAccount", 500, id, <<>>, [error |-> "err"])
     \/ /\ id \notin DOMAIN accounts
        /\ resp' = Response("getAccount", 404, id, <<>>, [error |-> "Account not found"])
     \/ /\ id \in DOMAIN accounts
        /\ resp' = Response("getAccount", 200, id, <<>>, accounts[id])
  /\ UNCHANGED <<accounts, transactions, creq, lreq, queried, now, client>>

\* GET /api/accounts
ListAccounts ==
  /\ received < MaxRequests
  /\ received' = received + 1
  /\ \/ resp' = Response("listAccounts", 500, "", <<>>, [error |-> "err"])
     \/ resp' = Response("listAccounts", 200, "", <<>>, accounts)
  /\ UNCHANGED <<accounts, transactions, creq, lreq, queried, now, client>>

\* parseInt(q): an absent parameter parses to NaN
parseInt(q) == IF q.tag = "number" THEN q ELSE NaN

\* v || d on a number: NaN and 0 are falsy
OrDefault(v, d) == IF v.tag = "number" /\ v.val # 0 THEN v.val ELSE d

\* const page = parseInt(req.query.page) || 1
PageOf(q) == OrDefault(parseInt(q.page), 1)
\* const limit = parseInt(req.query.page) || 10
LimitOf(q) == OrDefault(parseInt(q.page), 10)
\* the offset counted in rows of one page only
OffsetOfPageIndex(page, limit) == page - 1

\* const offset = (page - 1) * limit
OffsetOf(page, limit) == (page - 1) * limit

\* if (page < 1 || limit < 1 || limit > 100)
InvalidPagination(page, limit) == page < 1 \/ limit < 1 \/ limit > 100

\* Math.ceil(totalTransactions / limit), limit >= 1
totalPages(total, limit) == (total + limit - 1) \div limit

\* SELECT COUNT(*) as total FROM transactions WHERE accountId = ?
countQuery(txs, id) == Cardinality({i \in DOMAIN txs : txs[i].accountId = id})

\* ORDER BY date DESC, id DESC
Newer(x, y) == x.date > y.date \/ (x.date = y.date /\ x.id > y.id)
RECURSIVE OrderBy(_)
OrderBy(rows) ==
  IF rows = {} THEN <<>>
  ELSE LET first == CHOOSE x \in rows : \A y \in rows \ {x} : Newer(x, y)
       IN <<first>> \o OrderBy(rows \ {first})

\* LIMIT ? OFFSET ?
LimitOffset(seq, limit, offset) ==
  SubSeq(seq, offset + 1, IF offset + limit < Len(seq) THEN offset + limit ELSE Len(seq))

\* SELECT ... FROM transactions WHERE accountId = ? ORDER BY date DESC, id DESC LIMIT ? OFFSET ?
getTransactionsQuery(txs, id, limit, offset) ==
  LimitOffset(OrderBy({txs[i] : i \in {j \in DOMAIN txs : txs[j].accountId = id}}), limit, offset)

\* the pagination envelope of the 200 response
Pagination(page, limit, total) ==
  [currentPage |-> page, limit |-> limit, totalTransactions |-> total,
   totalPages |-> totalPages(total, limit),
   hasNextPage |-> page < totalPages(total, limit),
   hasPreviousPage |-> page > 1]

\* GET /api/accounts/:id/transactions: the handler up to its first db.get call
ListReceive(id, q) ==
  /\ lreq.pc = "idle"
  /\ queried < MaxQueries
  /\ queried' = queried + 1
  /\ LET page == PageOf(q)
         limit == LimitOf(q)
     IN IF InvalidPagination(page, limit)
        THEN /\ resp' = Response("listTransactions", 400, id, q, ErrorBody("Invalid pagination parameters. Page must be >= 1, limit must be between 1 and 100."))
             /\ lreq' = IdleQuery
        ELSE /\ resp' = NoResp
             /\ lreq' = [IdleQuery EXCEPT !.pc = "count", !.id = id, !.query = q, !.page = page,
                                          !.limit = limit, !.offset = OffsetOf(page, limit)]
  /\ UNCHANGED <<accounts, transactions, creq, received, now, client>>

\* db.get(countQuery) and its callback
ListCount ==
  /\ lreq.pc = "count"
  /\ \/ /\ resp' = Response("listTransactions", 500, lreq.id, lreq.query, ErrorBody("Failed to count transactions."))
        /\ lreq' = IdleQuery
     \/ /\ resp' = NoResp
        /\ lreq' = [lreq EXCEPT !.pc = "select",
                                !.totalTransactions = countQuery(transactions, lreq.id)]
  /\ UNCHANGED <<accounts, transactions, creq, received, queried, now, client>>

\* db.all(getTransactionsQuery) and its callback
ListSelect ==
  /\ lreq.pc = "select"
  /\ \/ resp' = Response("listTransactions", 500, lreq.id, lreq.query, ErrorBody("Failed to fetch transactions."))
     \/ resp' = Response("listTransactions", 200, lreq.id, lreq.query,
                         SuccessBody("Transaction details fetched successfully.",
                           [transactions |-> getTransactionsQuery(transactions, lreq.id, lreq.limit, lreq.offset),
                            pagination |-> Pagination(lreq.page, lreq.limit, lreq.totalTransactions)]))
  /\ lreq' = IdleQuery
  /\ UNCHANGED <<accounts, transactions, creq, received, queried, now, client>>

\* a second passes on the store's clock
Tick ==
  /\ now < MaxClock
  /\ now' = now + 1
  /\ resp' = NoResp
  /\ UNCHANGED <<accounts, transactions, creq, received, lreq, queried, client>>

(***************************************************************************)
(* The client: the AccountList component.  The account cards and the two   *)
(* modals are rendered once the accounts are loaded without error; the     *)
(* cards' buttons are used while no modal lies over them.                  *)
(***************************************************************************)
\* getTransactions(accountId): page = 1 and limit = 10 by default
ClientQuery == Query(JNum(1), JNum(10))

\* the useEffect on [openViewTransactionModal, accountId]: it starts a
\* getTransactions fetch unless no view modal is open and no account selected
TransactionsEffect(c) ==
  IF ~c.openViewTransactionModal /\ c.accountId = ""
  THEN c
  ELSE [c EXCEPT !.transactionsLoading = TRUE,
                 !.transactionsError = FALSE,
                 !.fetches = Append(@, c.accountId),
                 !.started = @ + 1]

\* if (loading) return ...; if (error) return ...
CardsShown == ~client.loading /\ ~client.error
NoModalOpen == ~client.openCreateTransactionModal /\ ~client.openViewTransactionModal

\* fetchAccounts of the mount effect: getAccounts answers, or fails
fetchAccounts ==
  /\ client.loading
  /\ \/ client' = [client EXCEPT !.accounts = DOMAIN accounts, !.loading = FALSE]
     \/ client' = [client EXCEPT !.error = TRUE, !.loading = FALSE]
  /\ resp' = NoResp
  /\ UNCHANGED <<accounts, transactions, creq, received, lreq, queried, now>>

\* the "Add transaction" button of an account card
ClickAddTransaction(id) ==
  /\ CardsShown /\ NoModalOpen
  /\ client.started < MaxFetches
  /\ client' = TransactionsEffect([client EXCEPT !.accountId = id,
                                                 !.openCreateTransactionModal = TRUE])
  /\ resp' = NoResp
  /\ UNCHANGED <<accounts, transactions, creq, received, lreq, queried, now>>

\* the "View transaction" button of an account card
ClickViewTransaction(id) ==
  /\ CardsShown /\ NoModalOpen
  /\ client.started < MaxFetches
  /\ client' = TransactionsEffect([client EXCEPT !.accountId = id,
                                                 !.openViewTransactionModal = TRUE])
  /\ resp' = NoResp
  /\ UNCHANGED <<accounts, transactions, creq, received, lreq, queried, now>>

\* the X of the create-transaction modal
handleCloseModal ==
  /\ CardsShown /\ client.openCreateTransactionModal
  /\ client' = TransactionsEffect([client EXCEPT !.openCreateTransactionModal = FALSE,
                                                 !.accountId = ""])
  /\ resp' = NoResp
  /\ UNCHANGED <<accounts, transactions, creq, received, lreq, queried, now>>

\* the X of the view-transactions modal
handleCloseViewModal ==
  /\ CardsShown /\ client.openViewTransactionModal
  /\ ~client.transactionsLoading
  /\ client' = TransactionsEffect([client EXCEPT !.openViewTransactionModal = FALSE,
                                                 !.accountId = "",
                                                 !.transactions = <<>>,
                                                 !.fetchedFor = "",
                                                 !.transactionsError = FALSE])
  /\ resp' = NoResp
  /\ UNCHANGED <<accounts, transactions, creq, received, lreq, queried, now>>

RemoveAt(seq, i) == SubSeq(seq, 1, i - 1) \o SubSeq(seq, i + 1, Len(seq))

\* the transactions of the server's 200 answer to getTransactions(id)
getTransactions(id) ==
  getTransactionsQuery(transactions, id, LimitOf(ClientQuery),
                       OffsetOf(PageOf(ClientQuery), LimitOf(ClientQuery)))

\* a getTransactions fetch in flight settles: .then with the answer's list,
\* or .catch when the answer is not ok; .finally in both cases
getTransactionsSettled(i) ==
  /\ i \in DOMAIN client.fetches
  /\ LET id == client.fetches[i] IN
     \/ client' = [client EXCEPT !.transactions = getTransactions(id),
                                 !.fetchedFor = id,
                                 !.transactionsLoading = FALSE,
                                 !.fetches = RemoveAt(@, i)]
     \/ client' = [client EXCEPT !.transactionsError = TRUE,
                                 !.transactionsLoading = FALSE,
                                 !.fetches = RemoveAt(@, i)]
  /\ resp' = NoResp
  /\ UNCHANGED <<accounts, transactions, creq, received, lreq, queried, now>>

(***************************************************************************)
(* Specifications.  Spec is the whole server.  TxSpec is the server        *)
(* receiving no list-transactions request, SeqSpec is TxSpec with the      *)
(* create-transaction requests handled one at a time, and QuerySpec is the *)
(* server whose create-transaction requests are valid deposits handled one *)
(* at a time, with list-transactions requests running beside them.         *)
(* ReadSpec is the three GET endpoints beside such deposits, and           *)
(* ClientSpec is the AccountList component beside such deposits.           *)
(***************************************************************************)
CreateSteps ==
  \/ \E s \in Slots : CreateLookup(s)
  \/ \E s \in Slots : CreateInsert(s)
  \/ \E s \in Slots : CreateUpdate(s)

ReadAccounts ==
  \/ \E id \in RequestIds : GetAccount(id)
  \/ ListAccounts

ListSteps ==
  \/ \E id \in RequestIds, q \in Queries : ListReceive(id, q)
  \/ ListCount
  \/ ListSelect

NoneInProgress == \A s \in Slots : creq[s].pc = "idle"

QueryBodies == {Body("DEPOSIT", JNum(500), "payroll")}

Next ==
  \/ \E s \in Slots, id \in RequestIds, b \in Bodies : CreateReceive(s, id, b)
  \/ CreateSteps
  \/ ReadAccounts
  \/ ListSteps
  \/ Tick

TxNext ==
  \/ \E s \in Slots, id \in RequestIds, b \in Bodies : CreateReceive(s, id, b)
  \/ CreateSteps
  \/ ReadAccounts

SeqNext ==
  \/ \E s \in Slots, id \in RequestIds, b \in Bodies : NoneInProgress /\ CreateReceive(s, id, b)
  \/ CreateSteps
  \/ ReadAccounts

QueryNext ==
  \/ \E s \in Slots, id \in DOMAIN sampleAccounts, b \in QueryBodies :
       NoneInProgress /\ CreateReceive(s, id, b)
  \/ CreateSteps
  \/ ListSteps
  \/ Tick

ReadNext ==
  \/ \E s \in Slots, id \in DOMAIN sampleAccounts, b \in QueryBodies :
       NoneInProgress /\ CreateReceive(s, id, b)
  \/ CreateSteps
  \/ ReadAccounts
  \/ ListSteps

ClientNext ==
  \/ fetchAccounts
  \/ \E id \in client.accounts : ClickAddTransaction(id)
  \/ \E id \in client.accounts : ClickViewTransaction(id)
  \/ handleCloseModal
  \/ handleCloseViewModal
  \/ \E i \in 1..MaxFetches : getTransactionsSettled(i)
  \/ \E s \in Slots, id \in DOMAIN sampleAccounts, b \in QueryBodies :
       NoneInProgress /\ CreateReceive(s, id, b)
  \/ CreateSteps

Spec == Init /\ [][Next]_vars
TxSpec == Init /\ [][TxNext]_vars
SeqSpec == Init /\ [][SeqNext]_vars
QuerySpec == Init /\ [][QueryNext]_vars
ReadSpec == Init /\ [][ReadNext]_vars
ClientSpec == Init /\ [][ClientNext]_vars

(***************************************************************************)
(* Properties.                                                             *)
(***************************************************************************)
\* the numeric amount of a stored row (0 when the column holds no number)
AmountOf(row) == IF row.amount.tag = "number" THEN row.amount.val ELSE 0

RowsOf(a, types) ==
  {transactions[i] : i \in {j \in DOMAIN transactions :
                              transactions[j].accountId = a /\ transactions[j].type \in types}}
AllRowsOf(a) ==
  {transactions[i] : i \in {j \in DOMAIN transactions : transactions[j].accountId = a}}

RECURSIVE SumAmounts(_)
SumAmounts(rows) ==
  IF rows = {} THEN 0
  ELSE LET x == CHOOSE x \in rows : TRUE IN AmountOf(x) + SumAmounts(rows \ {x})

RECURSIVE SumSigned(_)
SumSigned(rows) ==
  IF rows = {} THEN 0
  ELSE LET x == CHOOSE x \in rows : TRUE
       IN (IF x.type = "DEPOSIT" THEN AmountOf(x) ELSE 0 - AmountOf(x)) + SumSigned(rows \ {x})

\* the input constraints of createTransaction
ValidInput(b) ==
  /\ b.type \in TransactionTypes
  /\ b.amount.tag = "number" /\ b.amount.val > 0
  /\ ~FalsyStr(b.description)

\* C1: with create-transaction requests handled one at a time, whenever none
\* is in progress every account's balance is its seeded balance plus its
\* DEPOSIT rows' amounts minus its WITHDRAWAL and TRANSFER rows' amounts.
C1_BalanceIsLedgerSum ==
  NoneInProgress =>
    \A a \in DOMAIN accounts :
      accounts[a].balance =
        JNum(sampleAccounts[a].balance.val + SumAmounts(RowsOf(a, {"DEPOSIT"}))
               - SumAmounts(RowsOf(a, {"WITHDRAWAL", "TRANSFER"})))

\* the balance the request would leave is a number below zero
WouldGoNegative(balance, b) ==
  LET bal == Number(balance)
      amt == Number(b.amount)
  IN /\ bal.tag = "number" /\ amt.tag = "number"
     /\ (IF b.type = "DEPOSIT" THEN bal.val + amt.val ELSE bal.val - amt.val) < 0

\* C2: when the account lookup of a create-transaction request succeeds and
\* the new balance would be below zero, the request is answered 400
\* (insufficient funds) and ends there, with the accounts and the
\* transactions tables exactly as they were.
C2_InsufficientFundsRejected ==
  [][\A s \in Slots :
       (/\ creq[s].pc = "get" /\ creq'[s].pc # "get"
        /\ creq[s].id \in DOMAIN accounts
        /\ resp'.status # 500
        /\ WouldGoNegative(accounts[creq[s].id].balance, creq[s].body))
       => /\ resp'.op = "create"
          /\ resp'.status = 400
          /\ resp'.body.message = "Insufficient funds for this transaction."
          /\ creq'[s] = IdleReq
          /\ accounts' = accounts
          /\ transactions' = transactions]_vars

C2_Witness ==
  /\ resp.op = "create"
  /\ resp.status = 400
  /\ resp.body.message = "Insufficient funds for this transaction."
  /\ resp.id = "1"
  /\ resp.request = Body("WITHDRAWAL", JNum(6000), "rent")
  /\ accounts["1"].balance = JNum(5000)
  /\ transactions = <<>>

\* C3: in every reachable state every account's stored balance is a number
\* greater than or equal to zero, whatever requests arrive and however
\* their store steps interleave.
C3_BalanceNeverNegative ==
  \A a \in DOMAIN accounts :
    accounts[a].balance.tag = "number" /\ accounts[a].balance.val >= 0

\* C4: a create-transaction request with an invalid type, an amount that is
\* not greater than zero or an empty description never gets past its
\* account lookup, and no row of the transactions table comes from one.
C4_InvalidInputNeverReachesStore ==
  /\ \A s \in Slots : creq[s].pc \in {"insert", "update"} => ValidInput(creq[s].body)
  /\ \A i \in DOMAIN transactions :
       /\ transactions[i].type \in TransactionTypes
       /\ transactions[i].amount.tag = "number" /\ transactions[i].amount.val > 0
       /\ ~FalsyStr(transactions[i].description)

\* C5: whenever no create-transaction request is in progress, every row of
\* the transactions table is reflected in its account's balance: the
\* balance is the seeded one plus the signed amounts of the account's rows.
C5_RowsReflectedInBalance ==
  NoneInProgress =>
    \A a \in DOMAIN accounts :
      accounts[a].balance = JNum(sampleAccounts[a].balance.val + SumSigned(AllRowsOf(a)))

\* C6 as stated: every answer to a create-transaction request or to a
\* getAccount request for an account id that does not exist is a 404.
C6_UnknownAccountAlways404 ==
  /\ (resp.op = "create" /\ resp.id \notin DOMAIN accounts) => resp.status = 404
  /\ (resp.op = "getAccount" /\ resp.id \notin DOMAIN accounts) => resp.status = 404

\* C6 as amended: the account lookup of a create-transaction request for an
\* id that does not exist ends the request and leaves both tables as they
\* were; it answers 404, or 500 when the lookup itself failed, unless the
\* validation middleware has answered the request already (then nothing
\* more is sent).  getAccount for such an id answers 404, or 500 when the
\* lookup failed.
C6_UnknownAccountNotFound ==
  [][/\ \A s \in Slots :
          (creq[s].pc = "get" /\ creq'[s].pc # "get" /\ creq[s].id \notin DOMAIN accounts)
          => /\ creq'[s] = IdleReq
             /\ accounts' = accounts
             /\ transactions' = transactions
             /\ resp'.status \in {404, 500}
             /\ resp'.op = (IF creq[s].sent THEN "uncaught" ELSE "create")
     /\ (resp'.op = "getAccount" /\ resp'.id \notin DOMAIN accounts)
          => resp'.status \in {404, 500}]_vars

C6_Witness ==
  /\ resp.op = "create"
  /\ resp.status = 404
  /\ resp.id = "3"
  /\ resp.request = Body("DEPOSIT", JNum(500), "payroll")
  /\ transactions = <<>>

\* C7: a 201 answer carries the request's type and amount and a newBalance
\* that is the balance the request found at its account lookup plus the
\* amount for DEPOSIT, minus the amount for the other types; the balance
\* getAccount reads right after the answer is that newBalance.
C7_CreatedResponseMatchesBalance ==
  [][\A s \in Slots :
       (creq[s].pc = "update" /\ creq'[s].pc = "idle"
          /\ resp'.op = "create" /\ resp'.status = 201)
       => LET r == creq[s]
              prior == Number(r.balance)
              amt == Number(r.body.amount)
              data == resp'.body.data
          IN /\ data.transactionType = r.body.type
             /\ data.amount = r.body.amount
             /\ data.newBalance =
                  ToJson(IF r.body.type = "DEPOSIT" THEN JAdd(prior, amt) ELSE JSub(prior, amt))
             /\ accounts'[r.id].balance = data.newBalance]_vars

C7_Witness ==
  /\ resp.op = "create"
  /\ resp.status = 201
  /\ resp.id = "1"
  /\ resp.request = Body("DEPOSIT", JNum(500), "payroll")
  /\ resp.body.data.newBalance = JNum(5500)
  /\ accounts["1"].balance = JNum(5500)

\* a query with both parameters given
BothGiven(q) == q.page.tag = "number" /\ q.limit.tag = "number"
\* page >= 1 and limit in [1,100]
ValidQuery(q) == BothGiven(q) /\ q.page.val >= 1 /\ q.limit.val >= 1 /\ q.limit.val <= 100

\* C8: a 200 answer to a list-transactions request with page >= 1 and limit
\* in [1,100] has currentPage = page, limit = limit, totalTransactions = the
\* number of the account's rows, totalPages = ceil(total / limit),
\* hasNextPage = (page < totalPages) and hasPreviousPage = (page > 1).
C8_PaginationEnvelope ==
  (resp.op = "listTransactions" /\ resp.status = 200 /\ ValidQuery(resp.request)) =>
    LET page == resp.request.page.val
        limit == resp.request.limit.val
        total == Cardinality(AllRowsOf(resp.id))
        pages == (total + limit - 1) \div limit
    IN resp.body.data.pagination =
         [currentPage |-> page, limit |-> limit, totalTransactions |-> total,
          totalPages |-> pages, hasNextPage |-> page < pages, hasPreviousPage |-> page > 1]

\* C9: a 200 answer to a list-transactions request with page >= 1 and limit
\* in [1,100] returns the entries (page-1)*limit+1 .. page*limit (or to the
\* end) of the account's rows ordered by date descending, then id descending.
C9_PageOfNewestFirst ==
  (resp.op = "listTransactions" /\ resp.status = 200 /\ ValidQuery(resp.request)) =>
    LET page == resp.request.page.val
        limit == resp.request.limit.val
        ordered == OrderBy(AllRowsOf(resp.id))
        last == IF page * limit < Len(ordered) THEN page * limit ELSE Len(ordered)
    IN resp.body.data.transactions = SubSeq(ordered, (page - 1) * limit + 1, last)

\* C10: a list-transactions request that gives both parameters is answered
\* 400 exactly when page < 1 or limit is outside [1,100]; with page >= 1 and
\* limit in [1,100] it is accepted.
C10_PaginationValidation ==
  /\ (resp.op = "listTransactions" /\ BothGiven(resp.request))
       => (resp.status = 400 <=> ~ValidQuery(resp.request))
  /\ (lreq.pc # "idle" /\ BothGiven(lreq.query)) => ValidQuery(lreq.query)

\* C11: a 200 answer to a list-transactions request whose currentPage is
\* greater than the totalPages it reports carries an empty transaction list
\* and hasNextPage = false.
C11_PageBeyondLastIsEmpty ==
  (/\ resp.op = "listTransactions"
   /\ resp.status = 200
   /\ resp.body.data.pagination.currentPage > resp.body.data.pagination.totalPages)
  => /\ resp.body.data.transactions = <<>>
     /\ resp.body.data.pagination.hasNextPage = FALSE

\* C11 (amended): a 200 answer to a list-transactions request whose
\* currentPage is greater than the totalPages it reports carries an empty
\* transaction list and hasNextPage = false, provided the account has at the
\* select query the number of rows the count query counted.
C11_PageBeyondLastIsEmptyWhenCountCurrent ==
  [][(/\ lreq.pc = "select"
      /\ resp'.op = "listTransactions"
      /\ resp'.status = 200
      /\ resp'.body.data.pagination.currentPage > resp'.body.data.pagination.totalPages
      /\ countQuery(transactions, lreq.id) = lreq.totalTransactions)
     => /\ resp'.body.data.transactions = <<>>
        /\ resp'.body.data.pagination.hasNextPage = FALSE]_vars

C11_Witness ==
  /\ resp.op = "listTransactions"
  /\ resp.status = 200
  /\ resp.body.data.pagination.currentPage = 2
  /\ resp.body.data.pagination.totalPages = 1
  /\ resp.body.data.pagination.totalTransactions = 2
  /\ Cardinality(AllRowsOf(resp.id)) = 2
  /\ resp.body.data.transactions = <<>>

\* a body in which type, amount and description are all absent
NonePresent(b) == b.type = UndefStr /\ b.amount = JUndef /\ b.description = UndefStr

\* C12: a create-transaction request whose body has none of type, amount and
\* description is answered 400 by the validation middleware and never
\* reaches the handler (no store step is pending for it).
C12_EmptyBodyRejected ==
  /\ \A s \in Slots : creq[s].pc # "idle" => ~NonePresent(creq[s].body)
  /\ (resp.op \in {"create", "uncaught"} /\ NonePresent(resp.request))
       => (resp.op = "create" /\ resp.status = 400)

\* C13: every request is answered exactly once: no handler step answers a
\* request that has already been answered.
C13_NoSecondResponse == resp.op # "uncaught"

\* a step of listAccounts, getAccount or listTransactions
ReadStep ==
  \/ resp'.op \in {"getAccount", "listAccounts", "listTransactions"}
  \/ lreq' # lreq

\* C14: every step of listAccounts, getAccount and listTransactions leaves
\* the accounts and the transactions unchanged; a 200 answer of getAccount is
\* the stored account row, and two getAccount requests for one id answered
\* 200 one right after the other return the same data.
C14_ReadsLeaveStoreUnchanged ==
  [][/\ ReadStep => (accounts' = accounts /\ transactions' = transactions)
     /\ (resp'.op = "getAccount" /\ resp'.status = 200)
          => resp'.body = accounts[resp'.id]
     /\ (/\ resp.op = "getAccount" /\ resp.status = 200
         /\ resp'.op = "getAccount" /\ resp'.status = 200
         /\ resp'.id = resp.id)
          => resp'.body = resp.body]_vars

C14_Witness ==
  /\ resp.op = "getAccount"
  /\ resp.status = 200
  /\ resp.id = "1"
  /\ received = 2
  /\ accounts["1"].balance = JNum(5500)
  /\ resp.body = accounts["1"]

\* C15: when create-transaction requests with valid input for one account
\* interleave, every 201 leaves the account at the balance it held just before plus the signed
\* amount of the request's transaction, so that two 201s leave the initial
\* balance plus both effects and each answered newBalance is the balance
\* the account held once that transaction was applied.
C15_InterleavedCreatesBothApplied ==
  [][\A s \in Slots :
       (creq[s].pc = "update" /\ creq'[s].pc = "idle"
          /\ resp'.op = "create" /\ resp'.status = 201
          /\ ValidInput(creq[s].body)
          /\ \A row \in AllRowsOf(creq[s].id) :
               row.type \in TransactionTypes /\ AmountOf(row) > 0)
       => LET r == creq[s]
              held == Number(accounts[r.id].balance)
              amt == Number(r.body.amount)
              applied == ToJson(IF r.body.type = "DEPOSIT" THEN JAdd(held, amt) ELSE JSub(held, amt))
          IN /\ accounts'[r.id].balance = applied
             /\ resp'.body.data.newBalance = applied]_vars

\* C16: no step adds or removes an account; a step changes at most one
\* account record, only as the balance update of a create-transaction
\* request naming that account, and only in its balance (id, accountNumber,
\* accountType, accountHolder and createdAt stay as seeded).
C16_OnlyTargetBalanceChanges ==
  [][/\ DOMAIN accounts' = DOMAIN accounts
     /\ Cardinality({a \in DOMAIN accounts : accounts'[a] # accounts[a]}) <= 1
     /\ \A a \in DOMAIN accounts :
          \/ accounts'[a] = accounts[a]
          \/ /\ \E s \in Slots : /\ creq[s].pc = "update"
                                 /\ creq[s].id = a
                                 /\ creq'[s].pc = "idle"
             /\ accounts'[a] = [accounts[a] EXCEPT !.balance = accounts'[a].balance]
             /\ accounts'[a] = [sampleAccounts[a] EXCEPT !.balance = accounts'[a].balance]]_vars

C16_Witness ==
  /\ resp.op = "create"
  /\ resp.status = 201
  /\ resp.id = "1"
  /\ accounts["1"] = [sampleAccounts["1"] EXCEPT !.balance = JNum(5500)]
  /\ accounts["2"] = sampleAccounts["2"]
  /\ DOMAIN accounts = DOMAIN sampleAccounts

\* C17: the transactions only grow, by one row at a time, appended by the
\* insert step of a create-transaction request whose lookup found the
\* account; the new row carries that account's id and an id greater than
\* every id present; existing rows stay as they are and every row's
\* accountId names an existing account.
C17_TransactionsAppendOnly ==
  [][/\ \/ transactions' = transactions
        \/ \E s \in Slots :
             /\ creq[s].pc = "insert"
             /\ creq'[s].pc = "update"
             /\ creq[s].id \in DOMAIN accounts
             /\ Len(transactions') = Len(transactions) + 1
             /\ SubSeq(transactions', 1, Len(transactions)) = transactions
             /\ LET row == transactions'[Len(transactions')]
                IN /\ row.accountId = creq[s].id
                   /\ \A i \in DOMAIN transactions : row.id > transactions[i].id
     /\ \A i \in DOMAIN transactions' : transactions'[i].accountId \in DOMAIN accounts']_vars

C17_Witness ==
  /\ Len(transactions) = 2
  /\ transactions[2].id > transactions[1].id
  /\ transactions[1].accountId = "1"
  /\ transactions[2].accountId = "2"
  /\ transactions[1].type = "DEPOSIT"
  /\ transactions[2].type = "WITHDRAWAL"

\* C18: whenever the view-transactions modal is open with loading finished
\* and no error, the list it shows was set from the answer fetched for the
\* selected account, and each of its rows belongs to that account.
C18_ViewShowsSelectedAccount ==
  (/\ client.openViewTransactionModal
   /\ ~client.transactionsLoading
   /\ ~client.transactionsError)
  => /\ client.fetchedFor = client.accountId
     /\ \A i \in DOMAIN client.transactions :
          client.transactions[i].accountId = client.accountId
====
